---- MODULE Spec2Model ----
(***************************************************************************)
(* Model of static/main.js: the AzureDevOpsMetricsAnalyzer class.          *)
(*                                                                         *)
(* Strings are sequences of one-character strings, so that trim,           *)
(* toLowerCase and the `${project.name}/${repo.name}` key are computed.    *)
(* null / undefined is the value Null.  Every `await` of a remote call is  *)
(* a position (pc) of the invocation; the action that resumes it receives  *)
(* the outcome of the call and runs the code up to the next await.         *)
(***************************************************************************)
EXTENDS Integers, Sequences, FiniteSets, TLC

VARIABLES
    org,          \* the remote organization (what the REST API serves)
    inv,          \* inv[i]: the locals of the i-th analyzeMetrics invocation
    metricsData,  \* this.metricsData
    dom,          \* the display state of the page's sections
    exported,     \* the snapshots handed to the browser by exportData
    rng,          \* the state of Math.random
    clicks,       \* how many more times the user will click "analyze"
    faults,       \* how many more remote calls will fail
    arg,          \* argument of the pure function applied last
    res           \* its result

vars == <<org, inv, metricsData, dom, exported, rng, clicks, faults, arg, res>>

---------------------------------------------------------------------------
(* Strings *)

Null == <<"null">>

Truthy(s) == s # Null /\ s # <<>>

UpperChars == <<"A","B","C","D","E","F","G","H","I","J","K","L","M",
                "N","O","P","Q","R","S","T","U","V","W","X","Y","Z">>
LowerChars == <<"a","b","c","d","e","f","g","h","i","j","k","l","m",
                "n","o","p","q","r","s","t","u","v","w","x","y","z">>

ToLowerChar(c) ==
    IF \E k \in 1..26 : UpperChars[k] = c
    THEN LowerChars[CHOOSE k \in 1..26 : UpperChars[k] = c]
    ELSE c

ToLowerCase(s) == [k \in 1..Len(s) |-> ToLowerChar(s[k])]

IsSpace(c) == c \in {" ", "\t", "\n"}

RECURSIVE TrimStart(_)
TrimStart(s) ==
    IF s # <<>> /\ IsSpace(Head(s)) THEN TrimStart(Tail(s)) ELSE s

RECURSIVE TrimEnd(_)
TrimEnd(s) ==
    IF s # <<>> /\ IsSpace(s[Len(s)])
    THEN TrimEnd(SubSeq(s, 1, Len(s) - 1))
    ELSE s

\* a trim that strips nothing
TrimNothing(s) == s

Trim(s) == TrimEnd(TrimStart(s))

\* a key made of the repository name alone
RepoKeyWithoutProject(project, repo) == repo.name

RepoKey(project, repo) == project.name \o <<"/">> \o repo.name

---------------------------------------------------------------------------
(* The remote organization: projects, repositories, commits, pull          *)
(* requests, work items.                                                   *)

User      == <<"u","@","x">>
UserUpper == <<"U","@","X">>
Other     == <<"o","@","x">>

CommitBy(email) == [author |-> [present |-> TRUE, email |-> email]]
CommitNoEmail   == [author |-> [present |-> TRUE, email |-> Null]]
CommitNoAuthor  == [author |-> [present |-> FALSE, email |-> Null]]

PRBy(name) == [createdBy |-> [present |-> TRUE, uniqueName |-> name]]
PRNoCreator == [createdBy |-> [present |-> FALSE, uniqueName |-> Null]]

WorkItemFor(email) == [assignedTo |-> email]

Repo(id, name, commits, prs) ==
    [id |-> id, name |-> name, commits |-> commits, prs |-> prs]

Project(id, name, repos, workItems) ==
    [id |-> id, name |-> name, repos |-> repos, workItems |-> workItems]

\* one project, two repositories: activity in the first only
OrgSolo ==
    << Project(1, <<"P">>,
         << Repo(1, <<"A">>,
                 << CommitBy(User), CommitBy(Other), CommitBy(UserUpper),
                    CommitNoAuthor, CommitBy(User) >>,
                 << PRBy(User) >>),
            Repo(2, <<"B">>, <<>>, <<>>) >>,
         << WorkItemFor(UserUpper), WorkItemFor(Other), WorkItemFor(UserUpper) >>) >>

\* two projects holding a repository of the same name
OrgTwin ==
    << Project(1, <<"A">>,
         << Repo(1, <<"x">>, << CommitBy(User), CommitNoEmail >>,
                 << PRBy(Other), PRNoCreator >>) >>,
         << WorkItemFor(User) >>),
       Project(2, <<"B">>,
         << Repo(2, <<"x">>, << CommitBy(Other), CommitBy(UserUpper) >>, <<>>) >>,
         <<>>) >>

\* no project at all, and a project without repositories
OrgBare == << Project(1, <<"E">>, <<>>, << WorkItemFor(User) >>) >>

Orgs == { OrgSolo, OrgTwin, OrgBare, <<>> }

\* what the page's input fields may hold when the button is clicked
Tokens  == { <<>>, <<" ">>, <<"t">>, <<" ","t","\n">> }
Filters == { <<>>, <<" ">>, <<" ">> \o UserUpper }

\* at most this many remote calls fail
MaxFailures == 2

\* one project, one repository
OrgTiny ==
    << Project(1, <<"T">>,
         << Repo(1, <<"r">>, << CommitBy(User) >>, << PRBy(Other) >>) >>,
         << WorkItemFor(User) >>) >>

\* one project with six repositories, returned in an order that is neither
\* that of their ids nor that of their names; the sixth is the only one
\* where an author has two commits and two pull requests
OrgWide ==
    << Project(1, <<"W">>,
         << Repo(6, <<"f">>, << CommitBy(User) >>, << PRBy(Other) >>),
            Repo(2, <<"b">>, << CommitBy(Other) >>, << >>),
            Repo(5, <<"e">>, << CommitBy(User) >>, << >>),
            Repo(1, <<"a">>, << CommitNoAuthor >>, << PRNoCreator >>),
            Repo(4, <<"d">>, << CommitBy(UserUpper) >>, << >>),
            Repo(3, <<"c">>, << CommitBy(User), CommitBy(User) >>,
                             << PRBy(Other), PRBy(Other) >>) >>,
         << WorkItemFor(User) >>) >>

Seeds == { 0, 37 }

Invs == { 1, 2 }

---------------------------------------------------------------------------
(* The responses of the REST API.  A call either rejects (network error),  *)
(* or answers with a non-2xx status, or answers 2xx with a body that is    *)
(* malformed, or that lacks the list, or that carries it.                  *)

Outcomes == { "ok", "novalue", "non2xx", "neterr", "malformed" }

Response(o, data) == [outcome |-> o, value |-> IF o = "ok" THEN data ELSE <<>>]

\* the responses a call may receive
Responses(data) ==
    { Response(o, data) : o \in IF faults > 0 THEN Outcomes ELSE {"ok"} }

FaultsAfter(resp) == IF resp.outcome = "ok" THEN faults ELSE faults - 1

FetchRejects(resp) == resp.outcome = "neterr"
ResponseOk(resp)   == resp.outcome \in { "ok", "novalue", "malformed" }
JsonRejects(resp)  == resp.outcome = "malformed"
ValueOrEmpty(resp) == IF resp.outcome = "ok" THEN resp.value ELSE <<>>

Return(v) == [threw |-> FALSE, value |-> v, message |-> <<>>]
Throw(m)  == [threw |-> TRUE, value |-> <<>>, message |-> m]

\* a project-list fetch that, like the sub-fetches, answers a non-2xx status
\* with the empty list
GetProjectsSwallowing(resp) ==
    IF FetchRejects(resp) THEN Throw("network error")
    ELSE IF ~ResponseOk(resp) THEN Return(<<>>)
    ELSE IF JsonRejects(resp) THEN Throw("invalid json")
    ELSE Return(ValueOrEmpty(resp))

GetProjects(resp) ==
    IF FetchRejects(resp) THEN Throw("network error")
    ELSE IF ~ResponseOk(resp) THEN Throw("Failed to fetch projects: statusText")
    ELSE IF JsonRejects(resp) THEN Throw("invalid json")
    ELSE Return(ValueOrEmpty(resp))

GetRepositories(resp) ==
    IF FetchRejects(resp) THEN Throw("network error")
    ELSE IF ~ResponseOk(resp) THEN Return(<<>>)
    ELSE IF JsonRejects(resp) THEN Throw("invalid json")
    ELSE Return(ValueOrEmpty(resp))

\* a commit fetch that, like the project-list fetch, throws on a non-2xx status
GetCommitsThrowing(resp) ==
    IF FetchRejects(resp) THEN Throw("network error")
    ELSE IF ~ResponseOk(resp) THEN Throw("Failed to fetch commits")
    ELSE IF JsonRejects(resp) THEN Throw("invalid json")
    ELSE Return(ValueOrEmpty(resp))

GetCommits(resp) ==
    IF FetchRejects(resp) THEN Throw("network error")
    ELSE IF ~ResponseOk(resp) THEN Return(<<>>)
    ELSE IF JsonRejects(resp) THEN Throw("invalid json")
    ELSE Return(ValueOrEmpty(resp))

GetPullRequests(resp) ==
    IF FetchRejects(resp) THEN Throw("network error")
    ELSE IF ~ResponseOk(resp) THEN Return(<<>>)
    ELSE IF JsonRejects(resp) THEN Throw("invalid json")
    ELSE Return(ValueOrEmpty(resp))

GetWorkItems(resp) ==
    IF FetchRejects(resp) THEN Throw("network error")
    ELSE IF ~ResponseOk(resp) THEN Return(<<>>)
    ELSE IF JsonRejects(resp) THEN Throw("invalid json")
    ELSE Return(ValueOrEmpty(resp))

\* the work items the server's WIQL query selects for an assignee
AssignedTo(project, userEmail) ==
    SelectSeq(project.workItems, LAMBDA w : w.assignedTo = userEmail)

---------------------------------------------------------------------------
(* filterCommitsByUser, groupCommitsByUser, groupPRsByUser *)

AuthorOrEmpty(commit) ==
    IF commit.author.present THEN commit.author
    ELSE [present |-> TRUE, email |-> Null]

\* a comparison that forgets to lower-case
CommitMatchesExactly(commit, userEmail) ==
    /\ Truthy(AuthorOrEmpty(commit).email)
    /\ AuthorOrEmpty(commit).email = userEmail

CommitMatches(commit, userEmail) ==
    /\ Truthy(AuthorOrEmpty(commit).email)
    /\ ToLowerCase(AuthorOrEmpty(commit).email) = ToLowerCase(userEmail)

FilterCommitsByUser(commits, userEmail) ==
    IF ~Truthy(userEmail) THEN commits
    ELSE SelectSeq(commits, LAMBDA c : CommitMatches(c, userEmail))

Unknown == <<"u","n","k","n","o","w","n">>

CommitEmail(commit) ==
    IF commit.author.present /\ Truthy(commit.author.email)
    THEN commit.author.email ELSE Unknown

PRCreator(pr) ==
    IF pr.createdBy.present /\ Truthy(pr.createdBy.uniqueName)
    THEN pr.createdBy.uniqueName ELSE Unknown

\* Object.values of the counting object: one count per distinct key, in
\* the order in which the keys were first inserted
CountsByKey(keys) ==
    LET first == { k \in 1..Len(keys) : \A j \in 1..(k - 1) : keys[j] # keys[k] }
        nth(n) == CHOOSE k \in first : Cardinality({ j \in first : j < k }) = n - 1
    IN  [n \in 1..Cardinality(first) |->
            Cardinality({ j \in 1..Len(keys) : keys[j] = keys[nth(n)] })]

GroupCommitsByUser(commits) ==
    CountsByKey([k \in 1..Len(commits) |-> CommitEmail(commits[k])])

GroupPRsByUser(prs) ==
    CountsByKey([k \in 1..Len(prs) |-> PRCreator(prs[k])])

---------------------------------------------------------------------------
(* Math.random and the three synthetic generators.  Math.random is a       *)
(* pseudo-random generator of unknown seed: an additive congruential       *)
(* generator over 0..63 whose draw x stands for the number x/64 of [0,1).  *)

NextRandom(s) == (s + 37) % 64

\* the n-th draw after state s
RandomAfter(s, n) == (s + 37 * n) % 64

\* Math.floor(Math.random() * a) + Math.floor(Math.random() * Math.random() * b)
MockValue(s, k, a, b) ==
    ((RandomAfter(s, 3 * k - 2) * a) \div 64)
    + ((RandomAfter(s, 3 * k - 1) * RandomAfter(s, 3 * k) * b) \div (64 * 64))

GenerateMockCommitStats(s) == [k \in 1..50 |-> MockValue(s, k, 20, 50)]
GenerateMockPRStats(s) == [k \in 1..50 |-> MockValue(s, k, 10, 25)]
GenerateMockWorkItemStats(s) == [k \in 1..50 |-> MockValue(s, k, 15, 30)]

\* the state of Math.random after one generator has run
AfterMock(s) == RandomAfter(s, 3 * 50)

---------------------------------------------------------------------------
(* IEEE-754 double arithmetic, as far as getPercentile uses it: the        *)
(* quotient of two small positive integers, its product with 100, and      *)
(* Math.round.  A double is [m, e]: a 53-bit significand m (a sequence of  *)
(* bits, most significant first, m[1] = 1) standing for the number         *)
(* m * 2^e; zero is the record Zero.  Every operation rounds to nearest,   *)
(* ties to even.                                                           *)

\* F(x), with x evaluated once and not at each of its uses in F
Once(x, F(_)) == CHOOSE r \in { F(v) : v \in {x} } : TRUE

Zero == [m |-> <<>>, e |-> 0]

RECURSIVE BitsValue(_)
BitsValue(bits) ==
    IF bits = <<>> THEN 0
    ELSE Once(SubSeq(bits, 1, Len(bits) - 1), LAMBDA high : 2 * BitsValue(high))
         + bits[Len(bits)]

PowersOfTwo == <<1, 2, 4, 8, 16, 32, 64, 128, 256, 512, 1024, 2048, 4096, 8192, 16384>>

\* 2^n for n in 0..14
Pow2(n) == PowersOfTwo[n + 1]

\* the w-bit representation of n
ToBits(n, w) == [k \in 1..w |-> (n \div Pow2(w - k)) % 2]

\* bits + 1, dropping the carry out of the most significant bit
Increment(bits) ==
    [k \in 1..Len(bits) |->
        IF \A j \in (k + 1)..Len(bits) : bits[j] = 1 THEN 1 - bits[k] ELSE bits[k]]

\* the double nearest to bits * 2^e (+ a non-zero part below the last bit
\* when sticky), for bits with at least 53 significant bits
RoundToDouble(bits, e, sticky) ==
    LET lead  == CHOOSE k \in 1..Len(bits) :
                    bits[k] = 1 /\ \A j \in 1..(k - 1) : bits[j] = 0
        last  == lead + 52             \* the last bit kept
        guard == Len(bits) > last /\ bits[last + 1] = 1
        rest  == sticky \/ \E j \in (last + 2)..Len(bits) : bits[j] = 1
        up    == guard /\ (rest \/ bits[last] = 1)
        exp   == e + (Len(bits) - last)
    IN  IF ~up THEN [m |-> SubSeq(bits, lead, last), e |-> exp]
        ELSE IF \A j \in lead..last : bits[j] = 1
             THEN [m |-> [k \in 1..53 |-> IF k = 1 THEN 1 ELSE 0], e |-> exp + 1]
             ELSE [m |-> Increment(SubSeq(bits, lead, last)), e |-> exp]

\* the shift that brings c / n into [1, 2)
RECURSIVE Normalizer(_, _)
Normalizer(c, n) == IF c >= n THEN 0 ELSE 1 + Normalizer(2 * c, n)

\* the remainder of the long division of r * 2^(14 k) by n
RECURSIVE DivRemainder(_, _, _)
DivRemainder(r, n, k) ==
    IF k = 0 THEN r ELSE (DivRemainder(r, n, k - 1) * Pow2(14)) % n

\* the k-th 14-bit limb of the fraction r / n, for 0 <= r < n
DivLimb(r, n, k) == (DivRemainder(r, n, k - 1) * Pow2(14)) \div n

\* c / n for integers 0 <= c <= n, 0 < n < 2^16
FloatDivide(c, n) ==
    IF c = 0 THEN Zero
    ELSE Once(<<1>> \o ToBits(DivLimb(c * Pow2(Normalizer(c, n)) - n, n, 1), 14)
                    \o ToBits(DivLimb(c * Pow2(Normalizer(c, n)) - n, n, 2), 14)
                    \o ToBits(DivLimb(c * Pow2(Normalizer(c, n)) - n, n, 3), 14)
                    \o ToBits(DivLimb(c * Pow2(Normalizer(c, n)) - n, n, 4), 14),
              LAMBDA bits :
                  RoundToDouble(bits, 0 - Normalizer(c, n) - 56,
                                DivRemainder(c * Pow2(Normalizer(c, n)) - n, n, 4) # 0))

\* the k-th 14-bit limb, counted from the low end, of the significand m
\* (padded on the left to 56 bits)
Limb(m, k) == BitsValue(SubSeq(<<0, 0, 0>> \o m, 57 - 14 * k, 56 - 14 * (k - 1)))

\* the carry out of the k low limbs of m in the product m * f
RECURSIVE MulCarry(_, _, _)
MulCarry(m, f, k) ==
    IF k = 0 THEN 0
    ELSE (Limb(m, k) * f + MulCarry(m, f, k - 1)) \div Pow2(14)

\* the k-th limb, counted from the low end, of the product m * f
MulLimb(m, f, k) == (Limb(m, k) * f + MulCarry(m, f, k - 1)) % Pow2(14)

\* x * f for a small positive integer f < 128
FloatMultiply(x, f) ==
    IF x = Zero THEN Zero
    ELSE Once(ToBits(MulCarry(x.m, f, 4), 7)
                \o ToBits(MulLimb(x.m, f, 4), 14)
                \o ToBits(MulLimb(x.m, f, 3), 14)
                \o ToBits(MulLimb(x.m, f, 2), 14)
                \o ToBits(MulLimb(x.m, f, 1), 14),
              LAMBDA bits : RoundToDouble(bits, x.e, FALSE))

\* Math.round(x) = floor(x + 1/2), for 0 <= x < 128
MathRound(x) ==
    IF x = Zero THEN 0
    ELSE LET whole == 53 + x.e     \* number of bits left of the binary point
         IN  IF whole < 0 THEN 0
             ELSE BitsValue(SubSeq(x.m, 1, whole)) + x.m[whole + 1]

---------------------------------------------------------------------------
(* calculatePercentiles and getPercentile *)

RangeOf(s) == { s[k] : k \in 1..Len(s) }

\* values.sort((a, b) => a - b)
\* the k-th element is the value v with fewer than k elements below it
\* and at least k elements up to it
SortAscending(values) ==
    Once([v \in RangeOf(values) |->
            [ below |-> Cardinality({ j \in 1..Len(values) : values[j] < v }),
              upTo  |-> Cardinality({ j \in 1..Len(values) : values[j] <= v }) ]],
         LAMBDA rank :
            [k \in 1..Len(values) |->
                CHOOSE v \in DOMAIN rank : rank[v].below < k /\ k <= rank[v].upTo])

\* a loop with the comparison turned around: count++ while value > userValue
CountAbove(sorted, userValue) ==
    IF \E k \in 1..Len(sorted) : sorted[k] <= userValue
    THEN (CHOOSE k \in 1..Len(sorted) :
             /\ sorted[k] <= userValue
             /\ \A j \in 1..(k - 1) : sorted[j] > userValue) - 1
    ELSE Len(sorted)

\* the loop over sorted: count++ while value < userValue, break otherwise
CountBelow(sorted, userValue) ==
    IF \E k \in 1..Len(sorted) : sorted[k] >= userValue
    THEN (CHOOSE k \in 1..Len(sorted) :
             /\ sorted[k] >= userValue
             /\ \A j \in 1..(k - 1) : sorted[j] < userValue) - 1
    ELSE Len(sorted)

RoundedShare(count, length) ==
    Once(FloatDivide(count, length),
         LAMBDA share : Once(FloatMultiply(share, 100), LAMBDA percent : MathRound(percent)))

GetPercentile(values, userValue) ==
    IF Len(values) = 0 \/ userValue = 0 THEN 0
    ELSE Once(SortAscending(values),
              LAMBDA sorted : RoundedShare(CountBelow(sorted, userValue), Len(sorted)))

Positive(counts) == SelectSeq(counts, LAMBDA count : count > 0)

\* filter(count => count > 0), then getPercentile against the user's total
PercentileOf(counts, total) ==
    Once(<<Positive(counts), total>>, LAMBDA in : GetPercentile(in[1], in[2]))

CalculatePercentiles(metrics) ==
    Once(metrics,
         LAMBDA m :
            [ computed  |-> TRUE,
              commits   |-> PercentileOf(m.orgStats.allCommits, m.totalCommits),
              prs       |-> PercentileOf(m.orgStats.allPRs, m.totalPRs),
              workItems |-> PercentileOf(m.orgStats.allWorkItems, m.totalWorkItems) ])

---------------------------------------------------------------------------
(* What the REST API serves for the organization o *)

ProjectOf(o, projectId) == CHOOSE p \in RangeOf(o) : p.id = projectId

RepoOf(o, projectId, repoId) ==
    CHOOSE r \in RangeOf(ProjectOf(o, projectId).repos) : r.id = repoId

ProjectList(o) == [k \in 1..Len(o) |-> [id |-> o[k].id, name |-> o[k].name]]

RepositoryList(o, projectId) ==
    LET repos == ProjectOf(o, projectId).repos
    IN  [k \in 1..Len(repos) |-> [id |-> repos[k].id, name |-> repos[k].name]]

CommitList(o, projectId, repoId) == RepoOf(o, projectId, repoId).commits

PullRequestList(o, projectId, repoId) == RepoOf(o, projectId, repoId).prs

WorkItemList(o, projectId, userEmail) == AssignedTo(ProjectOf(o, projectId), userEmail)

---------------------------------------------------------------------------
(* The records of the program *)

NoMetrics == [isNull |-> TRUE]

NoPercentiles == [computed |-> FALSE, commits |-> 0, prs |-> 0, workItems |-> 0]

NewMetrics ==
    [ totalCommits |-> 0, totalPRs |-> 0, totalWorkItems |-> 0, activeRepos |-> 0,
      repoStats |-> <<>>, projects |-> <<>>,
      orgStats |-> [allCommits |-> <<>>, allPRs |-> <<>>, allWorkItems |-> <<>>],
      percentiles |-> NoPercentiles ]

NewProjectMetrics == [commits |-> 0, prs |-> 0, workItems |-> 0, repoStats |-> <<>>]

NewOrgStats == [commits |-> <<>>, prs |-> <<>>, workItems |-> <<>>]

NoFetch == [kind |-> "none", outcome |-> "none", result |-> Return(<<>>)]

\* the locals of an invocation; token is the field's value as typed; issued,
\* last, aThrew, sThrew, sSoft, rngAt and trail record its history and are
\* read by no action
NewFrame ==
    [ pc |-> "idle", token |-> <<>>, userEmail |-> Null, projects |-> <<>>, pi |-> 0,
      metrics |-> NewMetrics, pm |-> NewProjectMetrics, os |-> NewOrgStats,
      repos |-> <<>>, ri |-> 0, commitCount |-> 0,
      issued |-> {}, last |-> NoFetch,
      aThrew |-> FALSE, sThrew |-> FALSE, sSoft |-> FALSE, rngAt |-> 0,
      trail |-> <<>> ]

Call(phase, kind, projectId, repoId) == <<phase, kind, projectId, repoId>>

Issue(f, call) == [f EXCEPT !.issued = @ \cup {call}]

Fetched(f, kind, resp, result) ==
    [f EXCEPT !.last = [kind |-> kind, outcome |-> resp.outcome, result |-> result]]

CurrentProject(f) == f.projects[f.pi]
CurrentRepo(f)    == f.repos[f.ri]

---------------------------------------------------------------------------
(* The page *)

TokenRequired == "Personal Access Token is required for API access. Please enter your PAT."

InitialDom ==
    [ loading |-> FALSE, results |-> FALSE, error |-> FALSE, exportBtn |-> FALSE,
      errorMessage |-> "", shown |-> NoMetrics ]

ShowLoading(d) ==
    [d EXCEPT !.loading = TRUE, !.results = FALSE, !.error = FALSE, !.exportBtn = FALSE]

\* a showError that leaves the loading section as it is
ShowErrorOverLoading(d, message) ==
    [d EXCEPT !.errorMessage = message, !.results = FALSE, !.error = TRUE]

ShowError(d, message) ==
    [d EXCEPT !.errorMessage = message, !.loading = FALSE, !.results = FALSE,
              !.error = TRUE]

DisplayResults(d, metrics) ==
    [d EXCEPT !.shown = metrics, !.loading = FALSE, !.results = TRUE,
              !.exportBtn = TRUE, !.error = FALSE]

---------------------------------------------------------------------------
(* analyzeProject *)

\* getProjectOrgStats, up to its first await
EnterGetProjectOrgStats(f) ==
    Issue([f EXCEPT !.pc = "sRepos", !.os = NewOrgStats, !.repos = <<>>, !.ri = 0,
                    !.sThrew = FALSE, !.sSoft = FALSE, !.rngAt = 0],
          Call("sample", "repositories", CurrentProject(f).id, 0))

\* analyzeProject, up to its first await
EnterAnalyzeProject(f) ==
    Issue([f EXCEPT !.pc = "aRepos", !.pm = NewProjectMetrics, !.repos = <<>>,
                    !.ri = 0, !.commitCount = 0, !.aThrew = FALSE],
          Call("analyze", "repositories", CurrentProject(f).id, 0))

\* the catch of analyzeProject: warn, return projectMetrics as it stands
AnalyzeProjectCatch(f) == EnterGetProjectOrgStats([f EXCEPT !.aThrew = TRUE])

\* a loop exit that queries the work items whether or not there is an identity
AnalyzeNextRepoAsking(f) ==
    IF f.ri <= Len(f.repos)
    THEN Issue([f EXCEPT !.pc = "aCommits"],
               Call("analyze", "commits", CurrentProject(f).id, CurrentRepo(f).id))
    ELSE Issue([f EXCEPT !.pc = "aWorkItems"],
               Call("analyze", "workItems", CurrentProject(f).id, 0))

\* the head of the repository loop, and what follows the loop
AnalyzeNextRepo(f) ==
    IF f.ri <= Len(f.repos)
    THEN Issue([f EXCEPT !.pc = "aCommits"],
               Call("analyze", "commits", CurrentProject(f).id, CurrentRepo(f).id))
    ELSE IF Truthy(f.userEmail)
    THEN Issue([f EXCEPT !.pc = "aWorkItems"],
               Call("analyze", "workItems", CurrentProject(f).id, 0))
    ELSE EnterGetProjectOrgStats(f)

\* a loop body that assigns the project's counts instead of adding to them
RecordRepoAssigning(pm, project, repo, commitCount, prCount) ==
    [pm EXCEPT !.commits = commitCount,
               !.prs = prCount,
               !.repoStats = (RepoKey(project, repo) :>
                                [commits |-> commitCount, prs |-> prCount,
                                 projectId |-> project.id, repoId |-> repo.id]) @@ @]

RecordRepo(pm, project, repo, commitCount, prCount) ==
    [pm EXCEPT !.commits = @ + commitCount,
               !.prs = @ + prCount,
               !.repoStats = (RepoKey(project, repo) :>
                                [commits |-> commitCount, prs |-> prCount,
                                 projectId |-> project.id, repoId |-> repo.id]) @@ @]

AnalyzeRepositories(f, resp) ==
    LET r == GetRepositories(resp)
        g == Fetched(f, "repositories", resp, r)
    IN  IF r.threw THEN AnalyzeProjectCatch(g)
        ELSE AnalyzeNextRepo([g EXCEPT !.repos = r.value, !.ri = 1])

AnalyzeCommits(f, resp) ==
    LET r == GetCommits(resp)
        g == Fetched(f, "commits", resp, r)
    IN  IF r.threw THEN AnalyzeProjectCatch(g)
        ELSE Issue([g EXCEPT !.commitCount = Len(FilterCommitsByUser(r.value, f.userEmail)),
                             !.pc = "aPRs"],
                   Call("analyze", "pullRequests", CurrentProject(f).id, CurrentRepo(f).id))

AnalyzePullRequests(f, resp) ==
    LET r == GetPullRequests(resp)
        g == Fetched(f, "pullRequests", resp, r)
    IN  IF r.threw THEN AnalyzeProjectCatch(g)
        ELSE AnalyzeNextRepo(
                [g EXCEPT !.pm = RecordRepo(@, CurrentProject(f), CurrentRepo(f),
                                            f.commitCount, Len(r.value)),
                          !.ri = @ + 1])

AnalyzeWorkItems(f, resp) ==
    LET r == GetWorkItems(resp)
        g == Fetched(f, "workItems", resp, r)
    IN  IF r.threw THEN AnalyzeProjectCatch(g)
        ELSE EnterGetProjectOrgStats([g EXCEPT !.pm.workItems = Len(r.value)])

---------------------------------------------------------------------------
(* getProjectOrgStats.  Each operator yields the invocation's locals and   *)
(* the state of Math.random after the step.                                *)

\* a slice that keeps the whole list
SliceAll(list, n) == list

Slice(list, n) == SubSeq(list, 1, IF Len(list) < n THEN Len(list) ELSE n)

\* a catch that adds the synthetic values to what was sampled so far
SampleCatchKeeping(f, s) ==
    [ frame |-> [f EXCEPT !.os = [ commits   |-> @.commits \o GenerateMockCommitStats(s),
                                   prs       |-> @.prs \o GenerateMockPRStats(AfterMock(s)),
                                   workItems |->
                                       @.workItems
                                       \o GenerateMockWorkItemStats(AfterMock(AfterMock(s))) ],
                          !.sThrew = TRUE, !.rngAt = s, !.pc = "merge"],
      rng |-> AfterMock(AfterMock(AfterMock(s))) ]

\* the catch of getProjectOrgStats: the three distributions are replaced
SampleCatch(f, s) ==
    [ frame |-> [f EXCEPT !.os = [ commits   |-> GenerateMockCommitStats(s),
                                   prs       |-> GenerateMockPRStats(AfterMock(s)),
                                   workItems |-> GenerateMockWorkItemStats(AfterMock(AfterMock(s))) ],
                          !.sThrew = TRUE, !.rngAt = s, !.pc = "merge"],
      rng |-> AfterMock(AfterMock(AfterMock(s))) ]

\* the head of the loop over repos.slice(0, 5), and what follows the loop
SampleNextRepo(f, s) ==
    IF f.ri <= Len(f.repos)
    THEN [ frame |-> Issue([f EXCEPT !.pc = "sCommits"],
                           Call("sample", "commits", CurrentProject(f).id, CurrentRepo(f).id)),
           rng |-> s ]
    ELSE [ frame |-> [f EXCEPT !.os.workItems = @ \o GenerateMockWorkItemStats(s),
                               !.rngAt = s, !.pc = "merge"],
           rng |-> AfterMock(s) ]

Soft(f, resp) == [f EXCEPT !.sSoft = @ \/ resp.outcome = "non2xx"]

SampleRepositories(f, resp, s) ==
    LET r == GetRepositories(resp)
        g == Soft(Fetched(f, "repositories", resp, r), resp)
    IN  IF r.threw THEN SampleCatch(g, s)
        ELSE SampleNextRepo([g EXCEPT !.repos = Slice(r.value, 5), !.ri = 1], s)

SampleCommits(f, resp, s) ==
    LET r == GetCommits(resp)
        g == Soft(Fetched(f, "commits", resp, r), resp)
    IN  IF r.threw THEN SampleCatch(g, s)
        ELSE [ frame |-> Issue([g EXCEPT !.os.commits = @ \o GroupCommitsByUser(r.value),
                                         !.pc = "sPRs"],
                               Call("sample", "pullRequests",
                                    CurrentProject(f).id, CurrentRepo(f).id)),
               rng |-> s ]

SamplePullRequests(f, resp, s) ==
    LET r == GetPullRequests(resp)
        g == Soft(Fetched(f, "pullRequests", resp, r), resp)
    IN  IF r.threw THEN SampleCatch(g, s)
        ELSE SampleNextRepo([g EXCEPT !.os.prs = @ \o GroupPRsByUser(r.value),
                                      !.ri = @ + 1], s)

---------------------------------------------------------------------------
(* fetchAllMetrics *)

IsActive(stats) == stats.commits > 0 \/ stats.prs > 0

ActiveKeys(repoStats) == { k \in DOMAIN repoStats : IsActive(repoStats[k]) }

\* the body of the loop over projects, after both awaits
MergeProject(metrics, project, pm, os) ==
    [metrics EXCEPT
        !.totalCommits = @ + pm.commits,
        !.totalPRs = @ + pm.prs,
        !.totalWorkItems = @ + pm.workItems,
        !.activeRepos = @ + Cardinality(ActiveKeys(pm.repoStats)),
        !.repoStats = [k \in ActiveKeys(pm.repoStats) |-> pm.repoStats[k]] @@ @,
        !.orgStats = [ allCommits   |-> @.allCommits \o os.commits,
                       allPRs       |-> @.allPRs \o os.prs,
                       allWorkItems |-> @.allWorkItems \o os.workItems ],
        !.projects = Append(@, [ name |-> project.name, commits |-> pm.commits,
                                 prs |-> pm.prs, workItems |-> pm.workItems,
                                 repoStats |-> pm.repoStats ])]

\* a loop over the projects that stops one short
MoreProjectsButLast(f) == f.pi < Len(f.projects) - 1

MoreProjects(f) == f.pi < Len(f.projects)

\* the head of the loop over projects, and what follows the loop
NextProject(f) ==
    IF MoreProjects(f)
    THEN EnterAnalyzeProject([f EXCEPT !.pi = @ + 1])
    ELSE [f EXCEPT !.metrics.percentiles = CalculatePercentiles(f.metrics),
                   !.pc = "return"]

Merged(f) ==
    NextProject(
        [f EXCEPT !.metrics = MergeProject(@, CurrentProject(f), f.pm, f.os),
                  !.trail = Append(@, [ pm |-> f.pm, os |-> f.os, aThrew |-> f.aThrew,
                                        sThrew |-> f.sThrew, sSoft |-> f.sSoft,
                                        rngAt |-> f.rngAt, ri |-> f.ri ])])

---------------------------------------------------------------------------
(* The actions: one per resumption of an invocation *)

Frame(i) == inv[i]

Resume(i, f, resp) ==
    /\ inv' = [inv EXCEPT ![i] = f]
    /\ faults' = FaultsAfter(resp)
    /\ UNCHANGED <<org, metricsData, dom, exported, rng, clicks, arg, res>>

ResumeSampling(i, step, resp) ==
    /\ inv' = [inv EXCEPT ![i] = step.frame]
    /\ rng' = step.rng
    /\ faults' = FaultsAfter(resp)
    /\ UNCHANGED <<org, metricsData, dom, exported, clicks, arg, res>>

\* the click on analyzeBtn: analyzeMetrics up to the await of the project list
AnalyzeMetrics(i) ==
    /\ Frame(i).pc = "idle"
    /\ \A j \in Invs : j < i => Frame(j).pc # "idle"
    /\ clicks > 0
    /\ clicks' = clicks - 1
    /\ \E token \in Tokens, filter \in Filters :
          LET userEmail == IF Truthy(Trim(filter)) THEN Trim(filter) ELSE Null
              patToken  == Trim(token)
          IN  IF ~Truthy(patToken)
              THEN /\ dom' = ShowError(dom, TokenRequired)
                   /\ inv' = [inv EXCEPT ![i] = [@ EXCEPT !.pc = "rejected",
                                                          !.token = token,
                                                          !.userEmail = userEmail]]
              ELSE /\ dom' = ShowLoading(dom)
                   /\ inv' = [inv EXCEPT ![i] =
                                Issue([@ EXCEPT !.pc = "projects", !.token = token,
                                                !.userEmail = userEmail],
                                      Call("fetch", "projects", 0, 0))]
    /\ UNCHANGED <<org, metricsData, exported, rng, faults, arg, res>>

\* the project list arrives: the rest of fetchAllMetrics up to the next
\* await, or the catch of analyzeMetrics
ProjectsFetched(i) ==
    /\ Frame(i).pc = "projects"
    /\ \E resp \in Responses(ProjectList(org)) :
          LET r == GetProjects(resp)
              g == Fetched(Frame(i), "projects", resp, r)
          IN  /\ faults' = FaultsAfter(resp)
              /\ IF r.threw
                 THEN /\ dom' = ShowError(dom, r.message)
                      /\ inv' = [inv EXCEPT ![i] = [g EXCEPT !.pc = "failed"]]
                 ELSE /\ dom' = dom
                      /\ inv' = [inv EXCEPT ![i] =
                                   NextProject([g EXCEPT !.projects = r.value, !.pi = 0,
                                                         !.metrics = NewMetrics])]
    /\ UNCHANGED <<org, metricsData, exported, rng, clicks, arg, res>>

RepositoriesFetched(i) ==
    /\ Frame(i).pc = "aRepos"
    /\ \E resp \in Responses(RepositoryList(org, CurrentProject(Frame(i)).id)) :
          Resume(i, AnalyzeRepositories(Frame(i), resp), resp)

CommitsFetched(i) ==
    /\ Frame(i).pc = "aCommits"
    /\ \E resp \in Responses(CommitList(org, CurrentProject(Frame(i)).id,
                                        CurrentRepo(Frame(i)).id)) :
          Resume(i, AnalyzeCommits(Frame(i), resp), resp)

PullRequestsFetched(i) ==
    /\ Frame(i).pc = "aPRs"
    /\ \E resp \in Responses(PullRequestList(org, CurrentProject(Frame(i)).id,
                                             CurrentRepo(Frame(i)).id)) :
          Resume(i, AnalyzePullRequests(Frame(i), resp), resp)

WorkItemsFetched(i) ==
    /\ Frame(i).pc = "aWorkItems"
    /\ \E resp \in Responses(WorkItemList(org, CurrentProject(Frame(i)).id,
                                          Frame(i).userEmail)) :
          Resume(i, AnalyzeWorkItems(Frame(i), resp), resp)

SampleRepositoriesFetched(i) ==
    /\ Frame(i).pc = "sRepos"
    /\ \E resp \in Responses(RepositoryList(org, CurrentProject(Frame(i)).id)) :
          ResumeSampling(i, SampleRepositories(Frame(i), resp, rng), resp)

SampleCommitsFetched(i) ==
    /\ Frame(i).pc = "sCommits"
    /\ \E resp \in Responses(CommitList(org, CurrentProject(Frame(i)).id,
                                        CurrentRepo(Frame(i)).id)) :
          ResumeSampling(i, SampleCommits(Frame(i), resp, rng), resp)

SamplePullRequestsFetched(i) ==
    /\ Frame(i).pc = "sPRs"
    /\ \E resp \in Responses(PullRequestList(org, CurrentProject(Frame(i)).id,
                                             CurrentRepo(Frame(i)).id)) :
          ResumeSampling(i, SamplePullRequests(Frame(i), resp, rng), resp)

\* getProjectOrgStats has returned: the merge, then the next project or
\* the percentiles
ProjectMerged(i) ==
    /\ Frame(i).pc = "merge"
    /\ inv' = [inv EXCEPT ![i] = Merged(Frame(i))]
    /\ UNCHANGED <<org, metricsData, dom, exported, rng, clicks, faults, arg, res>>

\* a completion that stores its snapshot only when none is stored yet
ResultsDisplayedFirstWins(i) ==
    /\ Frame(i).pc = "return"
    /\ dom' = DisplayResults(dom, Frame(i).metrics)
    /\ metricsData' = IF metricsData = NoMetrics THEN Frame(i).metrics ELSE metricsData
    /\ inv' = [inv EXCEPT ![i] = [@ EXCEPT !.pc = "done"]]
    /\ UNCHANGED <<org, exported, rng, clicks, faults, arg, res>>

\* fetchAllMetrics has returned: displayResults, then the store
ResultsDisplayed(i) ==
    /\ Frame(i).pc = "return"
    /\ dom' = DisplayResults(dom, Frame(i).metrics)
    /\ metricsData' = Frame(i).metrics
    /\ inv' = [inv EXCEPT ![i] = [@ EXCEPT !.pc = "done"]]
    /\ UNCHANGED <<org, exported, rng, clicks, faults, arg, res>>

\* the click on exportBtn
ExportData ==
    /\ exported' = IF metricsData = NoMetrics THEN exported
                   ELSE exported \cup {metricsData}
    /\ UNCHANGED <<org, inv, metricsData, dom, rng, clicks, faults, arg, res>>

NoArg == [fn |-> "none"]

Init ==
    /\ org \in Orgs
    /\ inv = [i \in Invs |-> NewFrame]
    /\ metricsData = NoMetrics
    /\ dom = InitialDom
    /\ exported = {}
    /\ rng \in Seeds
    /\ clicks = 1
    /\ faults = MaxFailures
    /\ arg = NoArg
    /\ res = NoArg

Next ==
    \/ \E i \in Invs : AnalyzeMetrics(i)
    \/ \E i \in Invs : ProjectsFetched(i)
    \/ \E i \in Invs : RepositoriesFetched(i)
    \/ \E i \in Invs : CommitsFetched(i)
    \/ \E i \in Invs : PullRequestsFetched(i)
    \/ \E i \in Invs : WorkItemsFetched(i)
    \/ \E i \in Invs : SampleRepositoriesFetched(i)
    \/ \E i \in Invs : SampleCommitsFetched(i)
    \/ \E i \in Invs : SamplePullRequestsFetched(i)
    \/ \E i \in Invs : ProjectMerged(i)
    \/ \E i \in Invs : ResultsDisplayed(i)
    \/ ExportData

Spec == Init /\ [][Next]_vars

\* two clicks on analyzeBtn, the second at any time after the first, on an
\* organization small enough for two invocations to interleave
InitTwo ==
    /\ org = OrgTiny
    /\ inv = [i \in Invs |-> NewFrame]
    /\ metricsData = NoMetrics
    /\ dom = InitialDom
    /\ exported = {}
    /\ rng \in Seeds
    /\ clicks = 2
    /\ faults = 1
    /\ arg = NoArg
    /\ res = NoArg

SpecTwo == InitTwo /\ [][Next]_vars

\* the continuations of invocation i: each runs when the remote call it
\* awaits settles
Settle(i) ==
    \/ ProjectsFetched(i)
    \/ RepositoriesFetched(i)
    \/ CommitsFetched(i)
    \/ PullRequestsFetched(i)
    \/ WorkItemsFetched(i)
    \/ SampleRepositoriesFetched(i)
    \/ SampleCommitsFetched(i)
    \/ SamplePullRequestsFetched(i)
    \/ ProjectMerged(i)
    \/ ResultsDisplayed(i)

\* one click, on an organization of one or of two projects, two calls
\* failing at most
InitLive ==
    /\ org \in { OrgTiny, OrgTwin }
    /\ inv = [i \in Invs |-> NewFrame]
    /\ metricsData = NoMetrics
    /\ dom = InitialDom
    /\ exported = {}
    /\ rng = 0
    /\ clicks = 1
    /\ faults = 2
    /\ arg = NoArg
    /\ res = NoArg

\* every issued remote call settles, and the continuation awaiting it runs
SpecLive == InitLive /\ [][Next]_vars /\ \A i \in Invs : WF_vars(Settle(i))

\* one click, on an organization whose project has more repositories than
\* the sampler takes
InitWide ==
    /\ org = OrgWide
    /\ inv = [i \in Invs |-> NewFrame]
    /\ metricsData = NoMetrics
    /\ dom = InitialDom
    /\ exported = {}
    /\ rng \in Seeds
    /\ clicks = 1
    /\ faults = 1
    /\ arg = NoArg
    /\ res = NoArg

SpecWide == InitWide /\ [][Next]_vars

---------------------------------------------------------------------------
(* The pure functions, applied to inputs drawn from bounded sets *)

MaxLen == 3        \* longest distribution enumerated value by value
MaxValue == 3      \* largest count in such a distribution
MaxBulk == 40      \* longest two-valued distribution
MaxCommits == 3    \* longest commit sequence

\* the sequences over the set S of length at most n
SeqsUpTo(S, n) == UNION { [1..k -> S] : k \in 0..n }

\* n counts, of which the last c are 1 and the others 3: unsorted, with c
\* of them below a total of 2
Ramp(c, n) == [k \in 1..n |-> IF k > n - c THEN 1 ELSE 3]

OneToTen == [k \in 1..10 |-> k]

PercentileInput(counts, total) ==
    [fn |-> "calculatePercentiles", counts |-> counts, total |-> total, other |-> 0,
     commits |-> <<>>, userEmail |-> Null]

\* getPercentile on one distribution with two user values, u1 <= u2
PercentilePair(counts, u1, u2) ==
    [fn |-> "getPercentile", counts |-> counts, total |-> u1, other |-> u2,
     commits |-> <<>>, userEmail |-> Null]

FilterInput(commits, userEmail) ==
    [fn |-> "filterCommitsByUser", counts |-> <<>>, total |-> 0, other |-> 0,
     commits |-> commits, userEmail |-> userEmail]

PercentileInputs ==
    { PercentileInput(counts, total) :
        counts \in SeqsUpTo(0..MaxValue, MaxLen), total \in 0..(MaxValue + 1) }
    \cup { PercentileInput(Ramp(c, n), 2) : c \in 0..MaxBulk, n \in 1..MaxBulk }
    \cup { PercentileInput(OneToTen, total) : total \in 0..11 }

\* the counts 1, 2, ..., MaxBulk
Staircase == [k \in 1..MaxBulk |-> k]

PercentilePairs ==
    { PercentilePair(t[1], t[2], t[3]) :
        t \in { t \in SeqsUpTo(0..MaxValue, MaxLen)
                       \X (0..(MaxValue + 1)) \X (0..(MaxValue + 1)) : t[2] <= t[3] } }
    \cup { PercentilePair(Staircase, u, u + 1) : u \in 0..MaxBulk }

SomeCommits ==
    { CommitBy(User), CommitBy(UserUpper), CommitBy(Other), CommitNoEmail, CommitNoAuthor }

FilterInputs ==
    { FilterInput(commits, userEmail) :
        commits \in SeqsUpTo(SomeCommits, MaxCommits),
        userEmail \in { Null, <<>>, User, UserUpper, Other } }

\* calculatePercentiles on a snapshot whose commit distribution and commit
\* total are the input
ApplyCalculatePercentiles ==
    /\ arg.fn = "calculatePercentiles"
    /\ res.fn = "none"
    /\ res' = [ fn |-> arg.fn,
                value |-> CalculatePercentiles(
                              [NewMetrics EXCEPT !.orgStats.allCommits = arg.counts,
                                                 !.totalCommits = arg.total]).commits ]
    /\ UNCHANGED <<org, inv, metricsData, dom, exported, rng, clicks, faults, arg>>

\* getPercentile on the same distribution with each of the two user values
ApplyGetPercentile ==
    /\ arg.fn = "getPercentile"
    /\ res.fn = "none"
    /\ res' = [ fn |-> arg.fn,
                value |-> << GetPercentile(arg.counts, arg.total),
                             GetPercentile(arg.counts, arg.other) >> ]
    /\ UNCHANGED <<org, inv, metricsData, dom, exported, rng, clicks, faults, arg>>

ApplyFilterCommitsByUser ==
    /\ arg.fn = "filterCommitsByUser"
    /\ res.fn = "none"
    /\ res' = [fn |-> arg.fn, value |-> FilterCommitsByUser(arg.commits, arg.userEmail)]
    /\ UNCHANGED <<org, inv, metricsData, dom, exported, rng, clicks, faults, arg>>

InitPure ==
    /\ org = <<>>
    /\ inv = [i \in Invs |-> NewFrame]
    /\ metricsData = NoMetrics
    /\ dom = InitialDom
    /\ exported = {}
    /\ rng = 0
    /\ clicks = 0
    /\ faults = 0
    /\ arg \in PercentileInputs \cup PercentilePairs \cup FilterInputs
    /\ res = NoArg

NextPure ==
    \/ ApplyCalculatePercentiles
    \/ ApplyGetPercentile
    \/ ApplyFilterCommitsByUser

SpecPure == InitPure /\ [][NextPure]_vars

---------------------------------------------------------------------------
(* Properties *)

SubFetchKinds == { "repositories", "commits", "pullRequests", "workItems" }

FailureOutcomes == { "non2xx", "neterr", "malformed" }

ProjectsCall == Call("fetch", "projects", 0, 0)

Blank(s) == \A k \in 1..Len(s) : s[k] \in { " ", "\t", "\n" }

RECURSIVE SumSeq(_)
\* the sum of a sequence of numbers
SumSeq(seq) == IF seq = <<>> THEN 0 ELSE Head(seq) + SumSeq(Tail(seq))

\* C1: a project whose analysis ended in the catch of analyzeProject
\* contributes 0 commits, 0 PRs, 0 work items and no repoStats entry to the
\* snapshot, and the totals are those of the other projects.
C1_FailedProjectContributesNothing ==
    \A i \in Invs :
        LET f == inv[i]
            threw(k) == f.trail[k].aThrew
        IN  /\ \A k \in 1..Len(f.trail) :
                  threw(k) =>
                      /\ f.metrics.projects[k].commits = 0
                      /\ f.metrics.projects[k].prs = 0
                      /\ f.metrics.projects[k].workItems = 0
                      /\ DOMAIN f.metrics.projects[k].repoStats = {}
            /\ f.metrics.totalCommits =
                  SumSeq([k \in 1..Len(f.trail) |->
                            IF threw(k) THEN 0 ELSE f.metrics.projects[k].commits])
            /\ f.metrics.totalPRs =
                  SumSeq([k \in 1..Len(f.trail) |->
                            IF threw(k) THEN 0 ELSE f.metrics.projects[k].prs])

\* C2 as stated: every sub-fetch returns the empty sequence and does not
\* raise, whatever the failure of its remote call (non-2xx status, network
\* error, malformed body).
C2_SubFetchNeverRaises ==
    \A i \in Invs :
        (inv[i].last.kind \in SubFetchKinds /\ inv[i].last.outcome \in FailureOutcomes)
        => (~inv[i].last.result.threw /\ inv[i].last.result.value = <<>>)

\* C2 as amended: a sub-fetch returns the empty sequence, without raising,
\* when its call answers with a non-2xx status or with a body that lacks the
\* list; it raises when the request rejects (network error) or the body is
\* malformed, and the error is caught by the project: the run goes on.
C2_SubFetchOutcomes ==
    \A i \in Invs :
        inv[i].last.kind \in SubFetchKinds =>
            /\ inv[i].last.outcome \in { "non2xx", "novalue" } =>
                  (~inv[i].last.result.threw /\ inv[i].last.result.value = <<>>)
            /\ inv[i].last.outcome \in { "neterr", "malformed" } =>
                  inv[i].last.result.threw
            /\ inv[i].pc \notin { "failed", "rejected" }

C2_Witness ==
    \E i \in Invs :
        /\ inv[i].last.kind = "commits"
        /\ inv[i].last.outcome = "malformed"
        /\ inv[i].last.result.threw
        /\ inv[i].pc = "done"

\* what the catch of getProjectOrgStats generates from the state s of
\* Math.random
Synthetic(s) ==
    [ commits   |-> GenerateMockCommitStats(s),
      prs       |-> GenerateMockPRStats(AfterMock(s)),
      workItems |-> GenerateMockWorkItemStats(AfterMock(AfterMock(s))) ]

C4_ProjectListFailureAborts ==
    /\ [][\A i \in Invs :
             /\ (inv[i].pc = "projects" /\ inv'[i].pc # "projects"
                   /\ inv'[i].last.outcome \in FailureOutcomes)
                => /\ inv'[i].pc = "failed"
                   /\ metricsData' = metricsData
                   /\ dom'.error /\ ~dom'.results /\ ~dom'.loading
                   /\ dom'.errorMessage = inv'[i].last.result.message
             /\ inv[i].pc = "failed" => inv'[i] = inv[i]]_vars
    /\ [](\A i \in Invs :
             inv[i].pc = "failed" =>
                 /\ inv[i].issued = {ProjectsCall}
                 /\ inv[i].metrics = NewMetrics
                 /\ inv[i].trail = <<>>)

\* the project list failed after an earlier run had stored its snapshot
C4_Witness ==
    \E i \in Invs :
        /\ inv[i].pc = "failed"
        /\ inv[i].last.outcome = "non2xx"
        /\ metricsData # NoMetrics
        /\ dom.error

\* C5: with an empty or whitespace-only token, analyzeMetrics shows the
\* error, leaves metricsData as it was and issues no remote call, then or
\* later.
C5_MissingCredentialAborts ==
    /\ [][\A i \in Invs :
             /\ (inv[i].pc = "idle" /\ inv'[i].pc # "idle" /\ Blank(inv'[i].token))
                => /\ inv'[i].pc = "rejected"
                   /\ metricsData' = metricsData
                   /\ dom'.error /\ ~dom'.results /\ ~dom'.loading
                   /\ dom'.errorMessage = TokenRequired
             /\ inv[i].pc = "rejected" => inv'[i] = inv[i]]_vars
    /\ [](\A i \in Invs : inv[i].pc = "rejected" => inv[i].issued = {})

\* a whitespace-only token was refused after an earlier run had stored its
\* snapshot
C5_Witness ==
    \E i \in Invs :
        /\ inv[i].pc = "rejected"
        /\ inv[i].token = <<" ">>
        /\ inv[i].issued = {}
        /\ metricsData # NoMetrics

\* the counts of the distribution that are greater than 0
Remaining(counts) == { k \in 1..Len(counts) : counts[k] > 0 }

\* the nearest integer to 100 * less / n, a tie going up
NearestShare(less, n) == (200 * less + n) \div (2 * n)

\* C6: the percentile is an integer of 0..100: 0 when no count remains once
\* the zero counts are removed or when the user total is 0; otherwise
\* 100 * (remaining counts strictly below the user total) / (remaining
\* counts) rounded to the nearest integer; 1..10 with a total of 6 gives 50.
C6_PercentileFormula ==
    res.fn = "calculatePercentiles" =>
        LET n == Cardinality(Remaining(arg.counts))
            less == Cardinality({ k \in Remaining(arg.counts) : arg.counts[k] < arg.total })
        IN  /\ res.value \in 0..100
            /\ (n = 0 \/ arg.total = 0) => res.value = 0
            /\ (n > 0 /\ arg.total > 0) => res.value = NearestShare(less, n)
            /\ (arg.counts = OneToTen /\ arg.total = 6) => res.value = 50

\* the k-th smallest element of the set K of integers
Nth(K, k) == CHOOSE x \in K : Cardinality({ y \in K : y < x }) = k - 1

\* C7: filterCommitsByUser returns its input unchanged when the identity is
\* null or empty; otherwise it returns, in their order, exactly the commits
\* that have an author with an email which, lower-cased, equals the
\* lower-cased identity.
C7_FilterContract ==
    res.fn = "filterCommitsByUser" =>
        LET keep == { k \in 1..Len(arg.commits) :
                        /\ arg.commits[k].author.present
                        /\ arg.commits[k].author.email # Null
                        /\ ToLowerCase(arg.commits[k].author.email)
                              = ToLowerCase(arg.userEmail) }
        IN  /\ arg.userEmail \in { Null, <<>> } => res.value = arg.commits
            /\ arg.userEmail \notin { Null, <<>> } =>
                  /\ Len(res.value) = Cardinality(keep)
                  /\ Len(res.value) <= Len(arg.commits)
                  /\ \A j \in 1..Len(res.value) : res.value[j] = arg.commits[Nth(keep, j)]
                  /\ CommitNoAuthor \notin RangeOf(res.value)
                  /\ CommitNoEmail \notin RangeOf(res.value)

\* a commit in another case is kept, between two that are dropped
C7_Witness ==
    /\ res.fn = "filterCommitsByUser"
    /\ arg.userEmail = User
    /\ arg.commits = <<CommitNoAuthor, CommitBy(UserUpper), CommitBy(Other)>>
    /\ res.value = <<CommitBy(UserUpper)>>

\* fetchAllMetrics has returned in invocation i
Completed(i) == inv[i].pc \in { "return", "done" }

\* C8: once fetchAllMetrics has completed, activeRepos is the number of
\* entries of the snapshot's repoStats with commits > 0 or prs > 0, and a
\* repository recorded by a project, under its key project/repo, has an
\* entry of the snapshot (its own counts) if and only if its commit count or
\* its PR count is greater than 0; two repositories never share a key.
C8_ActiveRepos ==
    \A i \in Invs :
        Completed(i) =>
            LET m == inv[i].metrics
            IN  /\ m.activeRepos =
                      Cardinality({ key \in DOMAIN m.repoStats :
                                      m.repoStats[key].commits > 0 \/ m.repoStats[key].prs > 0 })
                /\ \A k \in 1..Len(m.projects) :
                      \A key \in DOMAIN m.projects[k].repoStats :
                          LET stats == m.projects[k].repoStats[key]
                          IN  /\ key \in DOMAIN m.repoStats <=> (stats.commits > 0 \/ stats.prs > 0)
                              /\ key \in DOMAIN m.repoStats => m.repoStats[key] = stats
                /\ \A k \in 1..Len(m.projects) :
                      \A l \in 1..Len(m.projects) :
                          k # l => DOMAIN m.projects[k].repoStats
                                     \cap DOMAIN m.projects[l].repoStats = {}

\* two active repositories of the same name, under two projects
C8_Witness ==
    \E i \in Invs :
        /\ inv[i].pc = "done"
        /\ org = OrgTwin
        /\ inv[i].metrics.activeRepos = 2
        /\ DOMAIN inv[i].metrics.repoStats = { <<"A","/","x">>, <<"B","/","x">> }

RECURSIVE SumOver(_, _)
\* the sum of count[k] over the keys k
SumOver(count, keys) ==
    IF keys = {} THEN 0
    ELSE LET k == CHOOSE k \in keys : TRUE
         IN  count[k] + SumOver(count, keys \ {k})

\* C9: once fetchAllMetrics has completed, totalCommits is the sum of commits
\* and totalPRs the sum of prs over the entries of the snapshot's repoStats,
\* whichever remote calls failed.
C9_TotalsAreSums ==
    \A i \in Invs :
        Completed(i) =>
            LET m == inv[i].metrics
            IN  /\ m.totalCommits =
                      SumOver([key \in DOMAIN m.repoStats |-> m.repoStats[key].commits],
                              DOMAIN m.repoStats)
                /\ m.totalPRs =
                      SumOver([key \in DOMAIN m.repoStats |-> m.repoStats[key].prs],
                              DOMAIN m.repoStats)

\* a project's analysis threw after a repository had been counted
C9_Witness ==
    \E i \in Invs :
        /\ inv[i].pc = "done"
        /\ inv[i].metrics.totalCommits > 1
        /\ inv[i].metrics.totalPRs > 0
        /\ \E k \in 1..Len(inv[i].trail) : inv[i].trail[k].aThrew

RECURSIVE Concat(_)
\* the concatenation of a sequence of sequences
Concat(seqs) == IF seqs = <<>> THEN <<>> ELSE Head(seqs) \o Concat(Tail(seqs))

\* C10: percentiles are computed only when every project of the list has
\* been analyzed and sampled and its contribution merged, and they are
\* computed over the concatenation of the contributions of all the projects.
C10_PercentilesAfterMerge ==
    /\ [](\A i \in Invs :
             inv[i].metrics.percentiles.computed =>
                 /\ Completed(i)
                 /\ Len(inv[i].trail) = Len(inv[i].projects)
                 /\ Len(inv[i].metrics.projects) = Len(inv[i].projects))
    /\ [][\A i \in Invs :
             (~inv[i].metrics.percentiles.computed /\ inv'[i].metrics.percentiles.computed)
             => LET f == inv'[i]
                    all(field) == Concat([k \in 1..Len(f.trail) |-> f.trail[k].os[field]])
                    over(distribution, merged, total, percentile) ==
                        Once(distribution,
                             LAMBDA counts :
                                 /\ merged = counts
                                 /\ Once(Positive(counts),
                                         LAMBDA positive :
                                             percentile = GetPercentile(positive, total)))
                IN  /\ over(all("commits"), f.metrics.orgStats.allCommits,
                            f.metrics.totalCommits, f.metrics.percentiles.commits)
                    /\ over(all("prs"), f.metrics.orgStats.allPRs,
                            f.metrics.totalPRs, f.metrics.percentiles.prs)
                    /\ over(all("workItems"), f.metrics.orgStats.allWorkItems,
                            f.metrics.totalWorkItems, f.metrics.percentiles.workItems)]_vars

\* the user's commits rank above the authors sampled in both projects
C10_Witness ==
    \E i \in Invs :
        /\ inv[i].pc = "done"
        /\ org = OrgTwin
        /\ Len(inv[i].trail) = 2
        /\ Len(inv[i].metrics.orgStats.allCommits) = 4
        /\ inv[i].metrics.percentiles.commits = 100

\* the sampling calls of kind `kind` that frame f has issued for a project
SampleCalls(f, kind, projectId) ==
    { c \in f.issued : c[1] = "sample" /\ c[2] = kind /\ c[3] = projectId }

\* the first five at most of the repositories the server lists for a project
FirstFive(projectId) ==
    LET listed == RepositoryList(org, projectId)
    IN  [k \in 1..(IF Len(listed) < 5 THEN Len(listed) ELSE 5) |-> listed[k]]

\* what the repositories `repos` contribute when the fetch of repository k
\* brought its list if live[k] and nothing otherwise
Contribution(repos, live, Counts(_)) ==
    Concat([k \in 1..Len(repos) |-> IF live[k] THEN Counts(repos[k]) ELSE <<>>])

\* C11: for every project the sampler fetches commits and pull requests of
\* at most 5 repositories, the first min(5, n) of the list as the repository
\* fetch returned it, in that order, and the project's commit and PR
\* distributions, when they are live data, come from those repositories only.
C11_SamplesFirstFive ==
    /\ [](\A i \in Invs :
             /\ \A c \in inv[i].issued :
                   (c[1] = "sample" /\ c[2] \in { "commits", "pullRequests" })
                   => \E k \in 1..Len(FirstFive(c[3])) : FirstFive(c[3])[k].id = c[4]
             /\ \A k \in 1..Len(inv[i].trail) :
                   ~inv[i].trail[k].sThrew =>
                       LET pid == inv[i].projects[k].id
                           repos == FirstFive(pid)
                           lives == [1..Len(repos) -> BOOLEAN]
                       IN  /\ \E live \in lives :
                                 inv[i].trail[k].os.commits =
                                     Contribution(repos, live,
                                         LAMBDA r : GroupCommitsByUser(
                                                        CommitList(org, pid, r.id)))
                           /\ \E live \in lives :
                                 inv[i].trail[k].os.prs =
                                     Contribution(repos, live,
                                         LAMBDA r : GroupPRsByUser(
                                                        PullRequestList(org, pid, r.id))))
    /\ [][\A i \in Invs :
             \A c \in inv'[i].issued \ inv[i].issued :
                 (c[1] = "sample" /\ c[2] \in { "commits", "pullRequests" })
                 => LET before == Cardinality(SampleCalls(inv[i], c[2], c[3]))
                    IN  /\ before < Len(FirstFive(c[3]))
                        /\ c[4] = FirstFive(c[3])[before + 1].id]_vars

\* six repositories analyzed, five sampled, all fetches answered
C11_Witness ==
    \E i \in Invs :
        /\ org = OrgWide
        /\ inv[i].pc = "done"
        /\ Len(inv[i].trail) = 1
        /\ ~inv[i].trail[1].sThrew
        /\ Cardinality({ c \in inv[i].issued : c[1] = "analyze" /\ c[2] = "commits" }) = 6
        /\ Cardinality(SampleCalls(inv[i], "commits", 1)) = 5
        /\ Cardinality(SampleCalls(inv[i], "pullRequests", 1)) = 5
        /\ inv[i].trail[1].os.commits = <<1, 1, 1, 1, 1>>
        /\ inv[i].trail[1].os.prs = <<1, 1>>

\* C12: without a filter identity no work-item query is issued and the
\* snapshot's totalWorkItems is 0; with an identity, a project's work-item
\* count is the number of work items its query returned for that identity
\* (0 when the query failed or was not reached), and totalWorkItems is the
\* sum of the projects' counts.
C12_WorkItemsNeedIdentity ==
    /\ [](\A i \in Invs :
             LET f == inv[i]
             IN  /\ ~Truthy(f.userEmail) =>
                       /\ \A c \in f.issued : c[2] # "workItems"
                       /\ f.metrics.totalWorkItems = 0
                       /\ f.pm.workItems = 0
                 /\ \A k \in 1..Len(f.trail) :
                       LET pid == f.projects[k].id
                           returned == Len(WorkItemList(org, pid, f.userEmail))
                       IN  /\ f.trail[k].pm.workItems \in { 0, returned }
                           /\ Call("analyze", "workItems", pid, 0) \notin f.issued
                                 => f.trail[k].pm.workItems = 0
                 /\ f.metrics.totalWorkItems =
                       SumSeq([k \in 1..Len(f.trail) |-> f.trail[k].pm.workItems]))
    /\ [][\A i \in Invs :
             (inv[i].pc = "aWorkItems" /\ inv'[i].pc # "aWorkItems")
             => inv'[i].pm.workItems =
                    IF inv'[i].last.outcome = "ok"
                    THEN Len(WorkItemList(org, CurrentProject(inv[i]).id, inv[i].userEmail))
                    ELSE 0]_vars

\* one run with an identity that has a work item, after which the snapshot
\* counts it
C12_Witness ==
    \E i \in Invs :
        /\ inv[i].pc = "done"
        /\ org = OrgSolo
        /\ inv[i].userEmail = UserUpper
        /\ Call("analyze", "workItems", 1, 0) \in inv[i].issued
        /\ inv[i].metrics.totalWorkItems = 2

\* C13: for a fixed distribution, getPercentile does not decrease when the
\* user value grows: u1 <= u2 implies percentile(u1) <= percentile(u2).
C13_PercentileMonotone ==
    (res.fn = "getPercentile" /\ arg.total <= arg.other)
    => res.value[1] <= res.value[2]

\* one more value below the user value moves the percentile from 55 to 57
C13_Witness ==
    /\ res.fn = "getPercentile"
    /\ arg.counts = Staircase
    /\ arg.total = 23
    /\ arg.other = 24
    /\ res.value = <<55, 57>>

\* the snapshot m is the finished result of invocation i: every project of
\* its list merged, percentiles computed
CompleteSnapshotOf(m, i) ==
    /\ m = inv[i].metrics
    /\ m.percentiles.computed
    /\ Len(m.projects) = Len(inv[i].projects)

\* C14: however two analyzeMetrics invocations and the export clicks
\* interleave, metricsData is null as long as no invocation has completed
\* successfully and afterwards the complete snapshot, percentiles included,
\* of the invocation that completed last; a rejected or failed invocation
\* leaves it unchanged; exportData exports nothing while it is null and
\* otherwise exports metricsData.
C14_StoredSnapshot ==
    /\ [](/\ metricsData = NoMetrics <=> \A i \in Invs : inv[i].pc # "done"
          /\ metricsData # NoMetrics =>
                \E i \in Invs : inv[i].pc = "done" /\ CompleteSnapshotOf(metricsData, i)
          /\ \A m \in exported :
                /\ m # NoMetrics
                /\ \E i \in Invs : inv[i].pc = "done" /\ CompleteSnapshotOf(m, i))
    /\ [][/\ \A i \in Invs :
                (inv[i].pc # "done" /\ inv'[i].pc = "done")
                => (metricsData' = inv'[i].metrics /\ inv'[i].metrics = inv[i].metrics)
          /\ metricsData' # metricsData =>
                \E i \in Invs : inv[i].pc = "return" /\ inv'[i].pc = "done"
          /\ exported' # exported =>
                (metricsData # NoMetrics /\ exported' = exported \cup {metricsData})]_vars

\* the first invocation to start completes last, with a snapshot other than
\* the one stored by the second, and is the one stored and exported
C14_Witness ==
    /\ inv[1].pc = "done"
    /\ inv[2].pc = "done"
    /\ inv[1].metrics # inv[2].metrics
    /\ metricsData = inv[1].metrics
    /\ exported = { inv[1].metrics, inv[2].metrics }

\* invocation i is between its showLoading and its end
Running(i) == inv[i].pc \notin { "idle", "rejected", "done", "failed" }

\* C15: every invocation that passed the credential check finishes, whatever
\* calls fail: it ends with the loading section hidden and either the
\* results section or the error section shown.
C15_LeavesLoading ==
    /\ \A i \in Invs : Running(i) ~> inv[i].pc \in { "done", "failed" }
    /\ [][\A i \in Invs :
             (Running(i) /\ ~Running(i)')
             => /\ inv'[i].pc \in { "done", "failed" }
                /\ ~dom'.loading
                /\ inv'[i].pc = "done" => (dom'.results /\ ~dom'.error)
                /\ inv'[i].pc = "failed" => (dom'.error /\ ~dom'.results)]_vars

\* both projects analyzed and sampled although a call of each phase threw,
\* and the results shown
C15_Witness ==
    /\ inv[1].pc = "done"
    /\ Len(inv[1].trail) = 2
    /\ \E k \in 1..2 : inv[1].trail[k].aThrew
    /\ \E k \in 1..2 : inv[1].trail[k].sThrew
    /\ faults = 0
    /\ ~dom.loading
    /\ dom.results

====
